---- MODULE Spec2Model ----
(***************************************************************************)
(* The agent executor of langchain-rust (src/agent/executor.rs): the       *)
(* bounded plan / dispatch / observe loop of AgentExecutor::call, its tool *)
(* registry, its failure policy and its use of the shared Memory.          *)
(***************************************************************************)
EXTENDS Integers, Sequences, FiniteSets, TLC

(***************************************************************************)
(* Bounds of the model.                                                    *)
(***************************************************************************)
\* longest action batch an unscripted agent returns from one plan call
MaxBatch == 2
\* number of plan calls an unscripted agent is followed for
MaxFreePlans == 2
\* most steps an unscripted agent is followed for
MaxFreeSteps == 3
\* largest N of a scripted agent (N one-action rounds, then Finish)
MaxScript == 11
\* characters cut off the end of a document
MaxCut == 21
\* largest N of the scripted agent of concurrent calls
MaxConcScript == 1

(***************************************************************************)
(* Program constants.                                                      *)
(***************************************************************************)
\* from_agent: max_iterations: Some(10)
DefaultMaxIterations == 10

Callers == {1, 2}

(***************************************************************************)
(* Strings that the code inspects are sequences of characters.             *)
(***************************************************************************)
RECURSIVE TrimStart(_)
TrimStart(s) ==
    IF s # <<>> /\ Head(s) = " " THEN TrimStart(Tail(s)) ELSE s

RECURSIVE TrimEnd(_)
TrimEnd(s) ==
    IF s # <<>> /\ s[Len(s)] = " " THEN TrimEnd(SubSeq(s, 1, Len(s) - 1)) ELSE s

\* str::trim
Trim(s) == TrimEnd(TrimStart(s))

\* str::replace(" ", "_")
ReplaceSpaces(s) == [i \in 1..Len(s) |-> IF s[i] = " " THEN "_" ELSE s[i]]

\* tool.name().trim().replace(" ", "_")
NormalizeName(s) == ReplaceSpaces(Trim(s))

(***************************************************************************)
(* The tools of the agent: a calculator that always answers, and a tool    *)
(* with a natural-language name that fails on the input "bad".             *)
(***************************************************************************)
Tools ==
    << [name |-> <<"c">>],
       [name |-> <<" ", "w", " ", "s">>] >>

\* Tool::call(input) -> Result<String, Error>
ToolCall(t, input) ==
    IF t = 2 /\ input = "bad"
    THEN [ok |-> FALSE, val |-> "boom"]
    ELSE [ok |-> TRUE, val |-> "25"]

\* the keys of the map built by get_name_to_tools
RegistryKeys == {NormalizeName(Tools[i].name) : i \in 1..Len(Tools)}

\* get_name_to_tools: a later tool of the same normalized name overwrites
NameToTools ==
    [k \in RegistryKeys |->
        CHOOSE i \in 1..Len(Tools) :
            /\ NormalizeName(Tools[i].name) = k
            /\ \A j \in 1..Len(Tools) :
                   NormalizeName(Tools[j].name) = k => j <= i]

\* name_to_tools.get(&action.tool): <<>> is None, <<i>> is Some(tool i)
LookupTool(name) ==
    IF name \in DOMAIN NameToTools THEN <<NameToTools[name]>> ELSE <<>>


(***************************************************************************)
(* Values.                                                                 *)
(***************************************************************************)
\* Option<T>: <<>> is None, <<v>> is Some(v)
None == <<>>
Some(v) == <<v>>

\* AgentAction {tool, tool_input, log}
AgentAction(tool, tool_input) ==
    [tool |-> tool, tool_input |-> tool_input, log |-> "log"]

\* AgentEvent::Action(actions)
EventAction(actions) == [type |-> "Action", actions |-> actions, output |-> ""]
\* AgentEvent::Finish(AgentFinish {output})
EventFinish(output) == [type |-> "Finish", actions |-> <<>>, output |-> output]
\* Err(AgentError) returned by plan
EventErr == [type |-> "Err", actions |-> <<>>, output |-> "llm down"]

\* Message of a Memory
HumanMessage(content) == [role |-> "human", content |-> content]
AIMessage(content) == [role |-> "ai", content |-> content]

\* the outcome of call as its caller sees it
NoResult == [kind |-> "none", category |-> "", text |-> <<>>]
\* Ok(GenerateResult {generation, ..})
OkResult(generation) == [kind |-> "ok", category |-> "", text |-> <<generation>>]
\* Err(ChainError::AgentError(..))
ErrResult(category, text) == [kind |-> "err", category |-> category, text |-> text]
\* the task unwinds from a panic
Panicked == [kind |-> "panic", category |-> "", text |-> <<>>]

Sentinel == "Max iterations reached"

(***************************************************************************)
(* Texts.  A text is a sequence of tokens: the characters the parser looks *)
(* at ({ } [ ] : , a blank, the quote and the backslash), the fence marks, *)
(* a digit, and words                                                      *)
(* of ordinary characters, which the parser never looks into.              *)
(***************************************************************************)
Quote == "quote"
Backslash == "backslash"
FenceOpen == "fence_json"
FenceClose == "fence"

\* serde_json::Value
JStr(s) == [t |-> "str", v |-> s]
JNum(n) == [t |-> "num", v |-> <<n>>]
JArr(xs) == [t |-> "arr", v |-> xs]
JObj(m) == [t |-> "obj", v |-> m]

\* the outcome of a parsing function: a value and the input left, or failure
ParseOk(val, rest) == [ok |-> TRUE, val |-> val, rest |-> rest]
ParseFail == [ok |-> FALSE, val |-> <<>>, rest |-> <<>>]

\* serde_json skips whitespace between tokens
RECURSIVE SkipWs(_)
SkipWs(s) == IF s # <<>> /\ Head(s) = " " THEN SkipWs(Tail(s)) ELSE s

\* number of consecutive backslashes that end at position i
RECURSIVE BackslashRun(_, _)
BackslashRun(s, i) ==
    IF i = 0 \/ s[i] # Backslash THEN 0 ELSE 1 + BackslashRun(s, i - 1)

\* the backslash at position j escapes the character after it
Escapes(s, j) == s[j] = Backslash /\ BackslashRun(s, j) % 2 = 1

\* the characters of s from lo to hi without the escaping backslashes
RECURSIVE Unescaped(_, _, _)
Unescaped(s, lo, hi) ==
    IF lo > hi THEN <<>>
    ELSE IF lo = hi THEN (IF Escapes(s, lo) THEN <<>> ELSE <<s[lo]>>)
    ELSE Unescaped(s, lo, (lo + hi) \div 2)
             \o Unescaped(s, (lo + hi) \div 2 + 1, hi)

\* the characters of a JSON string, read after its opening quote up to its
\* closing quote, the first quote that no backslash escapes; an escaped
\* quote and an escaped backslash are the escapes of the alphabet
StrBody(s) ==
    LET closing == {i \in 1..Len(s) :
                       s[i] = Quote /\ BackslashRun(s, i - 1) % 2 = 0}
    IN  IF closing = {} THEN ParseFail
        ELSE LET q == CHOOSE i \in closing : \A k \in closing : i <= k
             IN  IF \E j \in 1..(q - 1) :
                        Escapes(s, j) /\ s[j + 1] \notin {Quote, Backslash}
                 THEN ParseFail
                 ELSE ParseOk(JStr(Unescaped(s, 1, q - 1)),
                              SubSeq(s, q + 1, Len(s)))

\* serde_json::from_str::<Value>, by recursive descent
RECURSIVE ParseValue(_), ParseMembers(_, _), ParseElements(_, _)
ParseValue(s0) ==
    LET s == SkipWs(s0)
    IN  IF s = <<>> THEN ParseFail
        ELSE IF Head(s) = Quote THEN StrBody(Tail(s))
        ELSE IF Head(s) = "1" THEN ParseOk(JNum(1), Tail(s))
        ELSE IF Head(s) = "["
             THEN IF SkipWs(Tail(s)) # <<>> /\ Head(SkipWs(Tail(s))) = "]"
                  THEN ParseOk(JArr(<<>>), Tail(SkipWs(Tail(s))))
                  ELSE ParseElements(Tail(s), <<>>)
        ELSE IF Head(s) = "{"
             THEN IF SkipWs(Tail(s)) # <<>> /\ Head(SkipWs(Tail(s))) = "}"
                  THEN ParseOk(JObj(<<>>), Tail(SkipWs(Tail(s))))
                  ELSE ParseMembers(Tail(s), <<>>)
        ELSE ParseFail

\* the elements of an array after [ or ,
ParseElements(s, acc) ==
    LET e == ParseValue(s)
        r == SkipWs(e.rest)
    IN  IF ~e.ok \/ r = <<>> THEN ParseFail
        ELSE IF Head(r) = "," THEN ParseElements(Tail(r), Append(acc, e.val))
        ELSE IF Head(r) = "]" THEN ParseOk(JArr(Append(acc, e.val)), Tail(r))
        ELSE ParseFail

\* the members of an object after { or ,; a repeated key keeps the
\* last value (serde_json::Map::insert)
ParseMembers(s0, acc) ==
    LET s == SkipWs(s0)
        k == IF s # <<>> /\ Head(s) = Quote THEN StrBody(Tail(s))
             ELSE ParseFail
        c == SkipWs(k.rest)
        e == IF k.ok /\ c # <<>> /\ Head(c) = ":" THEN ParseValue(Tail(c))
             ELSE ParseFail
        r == SkipWs(e.rest)
        m == [x \in DOMAIN acc \cup {k.val.v} |->
                 IF x = k.val.v THEN e.val ELSE acc[x]]
    IN  IF ~e.ok \/ r = <<>> THEN ParseFail
        ELSE IF Head(r) = "," THEN ParseMembers(Tail(r), m)
        ELSE IF Head(r) = "}" THEN ParseOk(JObj(m), Tail(r))
        ELSE ParseFail

\* serde_json::from_str::<Value>(s): Some(value) = <<value>>, error = <<>>
Complete(r) == IF r.ok /\ SkipWs(r.rest) = <<>> THEN <<r.val>> ELSE <<>>

FromStr(s) == Complete(ParseValue(s))

(***************************************************************************)
(* The repair scan of parse_partial_json.                                  *)
(***************************************************************************)
\* new_s, stack, is_inside_string, escaped; failed: the scan returned None
ScanInit ==
    [new_s |-> <<>>, stack |-> <<>>, is_inside_string |-> FALSE,
     escaped |-> FALSE, failed |-> FALSE]

\* stack.pop_back() and the comparison with the closer read
PopChecked(st, ch) ==
    IF st.stack = <<>> THEN [st EXCEPT !.failed = TRUE]
    ELSE IF st.stack[Len(st.stack)] # ch
         THEN [st EXCEPT !.failed = TRUE,
                         !.stack = SubSeq(st.stack, 1, Len(st.stack) - 1)]
    ELSE [st EXCEPT !.stack = SubSeq(st.stack, 1, Len(st.stack) - 1)]

\* a faulty variant of ScanMatch: a backslash does not escape the quote
ScanMatchNoEscape(st, ch) ==
    IF ch = Quote
    THEN [st EXCEPT !.is_inside_string = ~st.is_inside_string]
    ELSE IF ch = "{" /\ ~st.is_inside_string
    THEN [st EXCEPT !.stack = Append(st.stack, "}")]
    ELSE IF ch = "[" /\ ~st.is_inside_string
    THEN [st EXCEPT !.stack = Append(st.stack, "]")]
    ELSE IF ch \in {"}", "]"} /\ ~st.is_inside_string
    THEN PopChecked(st, ch)
    ELSE IF ch = Backslash /\ st.is_inside_string
    THEN [st EXCEPT !.escaped = ~st.escaped]
    ELSE [st EXCEPT !.escaped = FALSE]

\* a faulty variant of ScanMatch: a mismatched closer is let through
ScanMatchLenient(st, ch) ==
    IF ch = Quote /\ ~st.escaped
    THEN [st EXCEPT !.is_inside_string = ~st.is_inside_string]
    ELSE IF ch = "{" /\ ~st.is_inside_string
    THEN [st EXCEPT !.stack = Append(st.stack, "}")]
    ELSE IF ch = "[" /\ ~st.is_inside_string
    THEN [st EXCEPT !.stack = Append(st.stack, "]")]
    ELSE IF ch \in {"}", "]"} /\ ~st.is_inside_string
    THEN [st EXCEPT !.stack = SubSeq(st.stack, 1, Len(st.stack) - 1)]
    ELSE IF ch = Backslash /\ st.is_inside_string
    THEN [st EXCEPT !.escaped = ~st.escaped]
    ELSE [st EXCEPT !.escaped = FALSE]

\* the match on one character
ScanMatch(st, ch) ==
    IF ch = Quote /\ ~st.escaped
    THEN [st EXCEPT !.is_inside_string = ~st.is_inside_string]
    ELSE IF ch = "{" /\ ~st.is_inside_string
    THEN [st EXCEPT !.stack = Append(st.stack, "}")]
    ELSE IF ch = "[" /\ ~st.is_inside_string
    THEN [st EXCEPT !.stack = Append(st.stack, "]")]
    ELSE IF ch \in {"}", "]"} /\ ~st.is_inside_string
    THEN PopChecked(st, ch)
    ELSE IF ch = Backslash /\ st.is_inside_string
    THEN [st EXCEPT !.escaped = ~st.escaped]
    ELSE [st EXCEPT !.escaped = FALSE]

\* one turn of the loop: the match, then new_s.push(char) unless it returned
ScanChar(st, ch) ==
    LET m == ScanMatch(st, ch)
    IN  IF m.failed THEN m ELSE [m EXCEPT !.new_s = Append(st.new_s, ch)]

RECURSIVE Reverse(_)
Reverse(s) == IF s = <<>> THEN <<>> ELSE Append(Reverse(Tail(s)), Head(s))

\* a faulty variant of CloseOpen: the closers are appended outermost first
CloseOpenFifo(st) == st.new_s \o st.stack

\* while let Some(c) = stack.pop_back() { new_s.push(c) }
CloseOpen(st) == st.new_s \o Reverse(st.stack)

RECURSIVE ScanAll(_, _)
ScanAll(st, s) ==
    IF s = <<>> \/ st.failed THEN st ELSE ScanAll(ScanChar(st, Head(s)), Tail(s))

\* parse_partial_json(s, strict)
ParsePartialJson(s, strict) ==
    IF FromStr(s) # <<>> THEN FromStr(s)
    ELSE IF strict THEN <<>>
    ELSE LET st == ScanAll(ScanInit, s)
         IN  IF st.failed THEN <<>> ELSE FromStr(CloseOpen(st))

(***************************************************************************)
(* The fenced block, the decoding and parse.                               *)
(***************************************************************************)
\* positions of the first opening fence and of the first fence after it
FirstOpen(text) ==
    IF \E i \in 1..Len(text) : text[i] = FenceOpen
    THEN CHOOSE i \in 1..Len(text) :
             /\ text[i] = FenceOpen
             /\ \A j \in 1..(i - 1) : text[j] # FenceOpen
    ELSE 0

FirstClose(text) ==
    IF FirstOpen(text) > 0
          /\ \E i \in (FirstOpen(text) + 1)..Len(text) : text[i] = FenceClose
    THEN CHOOSE i \in (FirstOpen(text) + 1)..Len(text) :
             /\ text[i] = FenceClose
             /\ \A j \in (FirstOpen(text) + 1)..(i - 1) : text[j] # FenceClose
    ELSE 0

\* re.captures(json_markdown) and caps.get(1): <<json_str>>, or <<>>
Captures(text) ==
    IF FirstClose(text) > 0
    THEN <<SubSeq(text, FirstOpen(text) + 1, FirstClose(text) - 1)>>
    ELSE <<>>

\* parse_json_markdown
ParseJsonMarkdown(text) ==
    IF Captures(text) # <<>> THEN ParsePartialJson(Captures(text)[1], FALSE)
    ELSE <<>>

IsStr(v) == v.t = "str"

\* serde_json::from_value::<AgentOutput>: an object with the two string
\* fields (other fields are ignored), or an array of exactly two strings
FromValue(v) ==
    IF v.t = "obj"
    THEN IF /\ <<"action">> \in DOMAIN v.v
            /\ <<"action_input">> \in DOMAIN v.v
            /\ IsStr(v.v[<<"action">>])
            /\ IsStr(v.v[<<"action_input">>])
         THEN << [action |-> v.v[<<"action">>].v,
                  action_input |-> v.v[<<"action_input">>].v] >>
         ELSE <<>>
    ELSE IF v.t = "arr"
    THEN IF Len(v.v) = 2 /\ IsStr(v.v[1]) /\ IsStr(v.v[2])
         THEN << [action |-> v.v[1].v, action_input |-> v.v[2].v] >>
         ELSE <<>>
    ELSE <<>>

\* Result<AgentEvent, AgentError> of parse and of plan
PlanOk(event) == [ok |-> TRUE, event |-> event]
PlanErr(error) ==
    [ok |-> FALSE, event |-> [type |-> "Err", actions |-> <<>>, output |-> error]]

\* a faulty variant of EventOf: the log is the extracted block, not the text
EventOfBlockLog(out, text) ==
    IF out.action = <<"Final Answer">>
    THEN EventFinish(out.action_input)
    ELSE EventAction(<< [tool |-> out.action,
                         tool_input |-> out.action_input,
                         log |-> Captures(text)[1]] >>)

\* the event of a decoded AgentOutput
EventOf(out, text) ==
    IF out.action = <<"Final Answer">>
    THEN EventFinish(out.action_input)
    ELSE EventAction(<< [tool |-> out.action,
                         tool_input |-> out.action_input,
                         log |-> text] >>)

\* a faulty variant of Fallback: the extracted block is returned
FallbackBlock(text) ==
    EventFinish(IF Captures(text) # <<>> THEN Captures(text)[1] ELSE text)

\* None => Finish {output: text}
Fallback(text) == EventFinish(text)

\* a faulty variant of Decoded: a value that does not decode is a Finish
DecodedLenient(value, text) ==
    IF FromValue(value) = <<>> THEN PlanOk(EventFinish(text))
    ELSE PlanOk(EventOf(FromValue(value)[1], text))

\* Some(value) => from_value(value)? and the event of it
Decoded(value, text) ==
    IF FromValue(value) = <<>> THEN PlanErr("serde_json")
    ELSE PlanOk(EventOf(FromValue(value)[1], text))

\* the match on what parse_json_markdown returned
ParseMatch(value, text) ==
    IF value = <<>> THEN PlanOk(Fallback(text)) ELSE Decoded(value[1], text)

\* ChatOutputParser::parse
Parse(text) == ParseMatch(ParseJsonMarkdown(text), text)

(***************************************************************************)
(* usize arithmetic: a usize is four 16-bit limbs, least significant       *)
(* first, so that `max_iterations as usize` keeps its 64-bit width.        *)
(***************************************************************************)
\* a faulty variant of I32AsUsize: a negative value becomes zero
I32AsUsizeSaturating(v) ==
    IF v < 0 THEN << 0, 0, 0, 0 >>
    ELSE << v % 65536, (v \div 65536) % 65536, 0, 0 >>

\* i32 as usize: sign extension to 64 bits
I32AsUsize(v) ==
    << v % 65536,
       (v \div 65536) % 65536,
       IF v < 0 THEN 65535 ELSE 0,
       IF v < 0 THEN 65535 ELSE 0 >>

\* Vec::len of a vector of n elements
LenAsUsize(n) == << n % 65536, (n \div 65536) % 65536, 0, 0 >>

RECURSIVE UsizeGeFrom(_, _, _)
UsizeGeFrom(a, b, i) ==
    IF i = 0 THEN TRUE
    ELSE IF a[i] # b[i] THEN a[i] > b[i]
    ELSE UsizeGeFrom(a, b, i - 1)

\* a >= b on usize
UsizeGe(a, b) == UsizeGeFrom(a, b, 4)

\* a faulty variant of BoundReached: a strict comparison
BoundReachedStrict(n, max) ==
    /\ max # None
    /\ UsizeGe(LenAsUsize(n), I32AsUsize(max[1]))
    /\ LenAsUsize(n) # I32AsUsize(max[1])

\* if let Some(m) = self.max_iterations { steps.len() >= m as usize }
BoundReached(n, max) ==
    /\ max # None
    /\ UsizeGe(LenAsUsize(n), I32AsUsize(max[1]))

(***************************************************************************)
(* The agents.  A scripted agent returns one action on the calculator      *)
(* while fewer than n steps were taken and then finishes; a free agent     *)
(* returns any event.                                                      *)
(***************************************************************************)
GoodAction == AgentAction(<<"c">>, "in")

ActionChoices ==
    { GoodAction,
      AgentAction(NormalizeName(Tools[2].name), "in"),
      AgentAction(NormalizeName(Tools[2].name), "bad"),
      AgentAction(Tools[2].name, "in"),
      AgentAction(<<"z">>, "in") }

Batches == UNION {[1..n -> ActionChoices] : n \in 0..MaxBatch}

AgentChoices ==
    {[kind |-> "scripted", n |-> n] : n \in 0..MaxScript}
        \cup {[kind |-> "free", n |-> 0]}

\* the failures of a planning call: of the generation, of the decoding of
\* an action log into the scratchpad, of the decoding of the parsed value
PlanFailures ==
    {EventErr, PlanErr("log decode").event, PlanErr("serde_json").event}

\* Agent::plan(intermediate_steps, inputs): the events it may return
AgentPlan(a, intermediate_steps) ==
    IF a.kind = "scripted"
    THEN IF Len(intermediate_steps) < a.n
         THEN {EventAction(<<GoodAction>>)}
         ELSE {EventFinish("answer")}
    ELSE PlanFailures \cup {EventFinish("answer")}
            \cup {EventAction(b) : b \in
                    {x \in Batches :
                        Len(intermediate_steps) + Len(x) <= MaxFreeSteps}}

(***************************************************************************)
(* State.                                                                  *)
(***************************************************************************)
VARIABLES
    agent,            \* AgentExecutor.agent
    max_iterations,   \* AgentExecutor.max_iterations: Option<i32>
    break_if_error,   \* AgentExecutor.break_if_error
    memory,           \* AgentExecutor.memory: None, or Some(the shared Memory)
    messages,         \* the messages of the shared Memory
    lock,             \* holder of the Memory's Mutex, 0 when free
    active,           \* the callers that call the executor
    pc,               \* where each call is
    input_variables,  \* the call's local input mapping
    steps,            \* the call's intermediate steps
    pending,          \* actions of the current batch not yet dispatched
    finish,           \* output of the Finish event being returned
    result,           \* what the call returned
    planCalls,        \* number of Agent::plan calls of the call
    toolCalls,        \* number of Tool::call invocations of the call
    plans,            \* the call's plan calls: arguments and event returned
    entry_messages,   \* the messages of the Memory when the call began
    text,             \* the generated text handed to ChatOutputParser::parse
    origin,           \* how the text was made: document, cut and wrapping
    p_pc,             \* where the parse of the text is
    chars,            \* the characters the repair scan has yet to read
    scan,             \* new_s, stack, is_inside_string and escaped of the scan
    value,            \* what parse_json_markdown returned: Option<Value>
    parsed,           \* what parse returned
    t_pc,             \* where the loop driven by the OpenAiToolAgent is
    t_steps,          \* its intermediate steps
    t_pending,        \* actions of its current batch not yet dispatched
    t_outputs,        \* the generations its plan calls received, in order
    thoughts          \* the scratchpad its last plan call constructed

vars ==
    << agent, max_iterations, break_if_error, memory, messages, lock, active,
       pc, input_variables, steps, pending, finish, result, planCalls,
       toolCalls, plans, entry_messages, text, origin, p_pc, chars, scan,
       value, parsed, t_pc, t_steps, t_pending, t_outputs, thoughts >>

toolagent == << t_pc, t_steps, t_pending, t_outputs, thoughts >>

parser == << text, origin, p_pc, chars, scan, value, parsed >>

config == << agent, max_iterations, break_if_error, memory, active >>

MaxIterationsChoices ==
    {None} \cup {Some(v) : v \in {-1, 0, 1, 2, DefaultMaxIterations}}

\* what a Memory handed to with_memory may already hold
MemoryChoices == { <<>>, <<HumanMessage("earlier"), AIMessage("reply")>> }

\* the input mappings of a call: with and without an `input` entry
InputChoices == { [k \in {"input"} |-> "question"], [k \in {} |-> "question"] }

\* a faulty variant of Insert: the other entries are lost
InsertAlone(m, key, v) == [k \in {key} |-> v]

\* HashMap::insert
Insert(m, key, v) ==
    [k \in DOMAIN m \cup {key} |-> IF k = key THEN v ELSE m[k]]

Terminal == {"ret_finish", "ret_bound", "ret_err", "panic"}

\* from_agent(..).with_max_iterations(..).with_memory(..).with_break_if_error(..)
InitExecutor ==
    /\ agent \in AgentChoices
    /\ max_iterations \in MaxIterationsChoices
    /\ break_if_error \in BOOLEAN
    /\ memory \in BOOLEAN
    /\ messages \in (IF memory THEN MemoryChoices ELSE {<<>>})
    /\ lock = 0

InitCalls ==
    /\ pc = [c \in Callers |-> "idle"]
    /\ input_variables = [c \in Callers |-> [k \in {} |-> "question"]]
    /\ steps = [c \in Callers |-> <<>>]
    /\ pending = [c \in Callers |-> <<>>]
    /\ finish = [c \in Callers |-> ""]
    /\ result = [c \in Callers |-> NoResult]
    /\ planCalls = [c \in Callers |-> 0]
    /\ toolCalls = [c \in Callers |-> 0]
    /\ plans = [c \in Callers |-> <<>>]
    /\ entry_messages = [c \in Callers |-> <<>>]

\* parse has not returned yet
NotParsed == [ok |-> FALSE, event |-> [type |-> "None", actions |-> <<>>, output |-> ""]]

\* no text is being parsed
ParserIdle ==
    /\ text = <<>>
    /\ origin = [doc |-> <<>>, cut |-> 0, wrap |-> "bare"]
    /\ p_pc = "off"
    /\ chars = <<>>
    /\ scan = ScanInit
    /\ value = <<>>
    /\ parsed = NotParsed

\* no loop is driven by an OpenAiToolAgent
ToolAgentIdle ==
    /\ t_pc = "off"
    /\ t_steps = <<>>
    /\ t_pending = <<>>
    /\ t_outputs = <<>>
    /\ thoughts = <<>>

Init ==
    /\ InitExecutor
    /\ active = {1}
    /\ InitCalls
    /\ ParserIdle
    /\ ToolAgentIdle


(***************************************************************************)
(* AgentExecutor::call, one action per suspension point or lock operation. *)
(***************************************************************************)
Upd(f, c, v) == [f EXCEPT ![c] = v]

\* call(input_variables): clone the inputs, build the registry, steps = []
Call(c) ==
    /\ pc[c] = "idle"
    /\ \E inputs \in InputChoices :
           input_variables' = Upd(input_variables, c, inputs)
    /\ steps' = Upd(steps, c, <<>>)
    /\ entry_messages' = Upd(entry_messages, c, messages)
    /\ pc' = Upd(pc, c, "entry")
    /\ UNCHANGED << config, parser, toolagent, messages, lock, pending, finish, result,
                    planCalls, toolCalls, plans >>

\* memory.lock().await at entry
LockEntry(c) ==
    /\ pc[c] = "entry"
    /\ memory
    /\ lock = 0
    /\ lock' = c
    /\ pc' = Upd(pc, c, "read_history")
    /\ UNCHANGED << config, parser, toolagent, messages, input_variables, steps, pending,
                    finish, result, planCalls, toolCalls, plans,
                    entry_messages >>

\* a faulty variant of ReadHistory: the guard is kept after the read
ReadHistoryKeepsLock(c) ==
    /\ pc[c] = "read_history"
    /\ lock = c
    /\ input_variables' =
           Upd(input_variables, c,
               Insert(input_variables[c], "chat_history", messages))
    /\ pc' = Upd(pc, c, "plan")
    /\ UNCHANGED << config, parser, toolagent, messages, lock, steps, pending, finish,
                    result, planCalls, toolCalls, plans, entry_messages >>

\* insert chat_history = memory.messages(); the guard is dropped
ReadHistory(c) ==
    /\ pc[c] = "read_history"
    /\ lock = c
    /\ input_variables' =
           Upd(input_variables, c,
               Insert(input_variables[c], "chat_history", messages))
    /\ lock' = 0
    /\ pc' = Upd(pc, c, "plan")
    /\ UNCHANGED << config, parser, toolagent, messages, steps, pending, finish, result,
                    planCalls, toolCalls, plans, entry_messages >>

\* no Memory: insert chat_history = SimpleMemory::new().messages()
DefaultHistory(c) ==
    /\ pc[c] = "entry"
    /\ ~memory
    /\ input_variables' =
           Upd(input_variables, c,
               Insert(input_variables[c], "chat_history", <<>>))
    /\ pc' = Upd(pc, c, "plan")
    /\ UNCHANGED << config, parser, toolagent, messages, lock, steps, pending, finish, result,
                    planCalls, toolCalls, plans, entry_messages >>

\* a faulty variant of AfterBatch: the rest of the batch is skipped
AfterBatchSkips(rest) == "check"

\* where the loop goes once the batch is dispatched
AfterBatch(rest) == IF rest = <<>> THEN "check" ELSE "dispatch"

\* a faulty variant of AfterPlanError: the planning call is made again
AfterPlanErrorRetry(ev) == "plan"

\* the ? on the mapped planning error: the call returns
AfterPlanError(ev) == "ret_err"

\* self.agent.plan(&steps, input_variables.clone()).await and the match on it
Plan(c) ==
    /\ pc[c] = "plan"
    /\ agent.kind = "free" => planCalls[c] < MaxFreePlans
    /\ planCalls' = Upd(planCalls, c, planCalls[c] + 1)
    /\ \E ev \in AgentPlan(agent, steps[c]) :
           /\ plans' = Upd(plans, c,
                  Append(plans[c],
                      [steps |-> steps[c], inputs |-> input_variables[c],
                       event |-> ev]))
           /\ CASE ev.type = "Err" ->
                    /\ result' = Upd(result, c,
                           ErrResult("planning",
                               <<"Error in agent planning: ", ev.output>>))
                    /\ pc' = Upd(pc, c, AfterPlanError(ev))
                    /\ UNCHANGED << pending, finish >>
                [] ev.type = "Action" ->
                    /\ pending' = Upd(pending, c, ev.actions)
                    /\ pc' = Upd(pc, c, AfterBatch(ev.actions))
                    /\ UNCHANGED << result, finish >>
                [] ev.type = "Finish" ->
                    /\ finish' = Upd(finish, c, ev.output)
                    /\ pc' = Upd(pc, c, "finish")
                    /\ UNCHANGED << result, pending >>
    /\ UNCHANGED << config, parser, toolagent, messages, lock, input_variables, steps,
                    toolCalls, entry_messages >>

\* a faulty variant of ErrorObservation: the failure description is dropped
ErrorObservationBlank(err) == <<"The tool return the following error: ">>

\* format!("The tool return the following error: {}", err)
ErrorObservation(err) == <<"The tool return the following error: ", err>>

\* a faulty variant of BreakOnError: the failure policy is ignored
BreakOnErrorNever(flag) == FALSE

\* if self.break_if_error
BreakOnError(flag) == flag

\* a faulty variant of ResolveTool: an unknown name falls back to the first tool
ResolveToolFallback(name) ==
    IF LookupTool(name) = None THEN Some(1) ELSE LookupTool(name)

\* name_to_tools.get(&action.tool)
ResolveTool(name) == LookupTool(name)

\* one turn of `for action in actions`: resolve, call, observe, push
Dispatch(c) ==
    /\ pc[c] = "dispatch"
    /\ pending[c] # <<>>
    /\ LET action == Head(pending[c])
           rest == Tail(pending[c])
           tool == ResolveTool(action.tool)
       IN  IF tool = None
           THEN /\ result' = Upd(result, c,
                       ErrResult("tool_not_found", <<"Tool error: ", "not found">>))
                /\ pc' = Upd(pc, c, "ret_err")
                /\ UNCHANGED << steps, pending, toolCalls >>
           ELSE LET r == ToolCall(tool[1], action.tool_input)
                IN  /\ toolCalls' = Upd(toolCalls, c, toolCalls[c] + 1)
                    /\ IF ~r.ok /\ BreakOnError(break_if_error)
                       THEN /\ result' = Upd(result, c,
                                   ErrResult("tool", <<"Tool error: ", r.val>>))
                            /\ pc' = Upd(pc, c, "ret_err")
                            /\ UNCHANGED << steps, pending >>
                       ELSE /\ steps' = Upd(steps, c,
                                   Append(steps[c],
                                       << action,
                                          IF r.ok THEN <<r.val>>
                                          ELSE ErrorObservation(r.val) >>))
                            /\ pending' = Upd(pending, c, rest)
                            /\ pc' = Upd(pc, c, AfterBatch(rest))
                            /\ UNCHANGED result
    /\ UNCHANGED << config, parser, toolagent, messages, lock, input_variables, finish,
                    planCalls, plans, entry_messages >>

\* a faulty variant of IterationCheck: the sentinel is recorded in the Memory
IterationCheckRemembers(c) ==
    /\ pc[c] = "check"
    /\ IF BoundReached(Len(steps[c]), max_iterations)
       THEN /\ result' = Upd(result, c, OkResult(Sentinel))
            /\ pc' = Upd(pc, c, "ret_bound")
            /\ messages' = IF memory THEN Append(messages, AIMessage(Sentinel))
                           ELSE messages
       ELSE /\ pc' = Upd(pc, c, "plan")
            /\ UNCHANGED << result, messages >>
    /\ UNCHANGED << config, parser, toolagent, lock, input_variables, steps, pending,
                    finish, planCalls, toolCalls, plans, entry_messages >>

\* the iteration bound, checked after the batch
IterationCheck(c) ==
    /\ pc[c] = "check"
    /\ IF BoundReached(Len(steps[c]), max_iterations)
       THEN /\ result' = Upd(result, c, OkResult(Sentinel))
            /\ pc' = Upd(pc, c, "ret_bound")
       ELSE /\ pc' = Upd(pc, c, "plan")
            /\ UNCHANGED result
    /\ UNCHANGED << config, parser, toolagent, messages, lock, input_variables, steps, pending,
                    finish, planCalls, toolCalls, plans, entry_messages >>

\* Finish without Memory: return Ok(finish.output)
FinishNoMemory(c) ==
    /\ pc[c] = "finish"
    /\ ~memory
    /\ result' = Upd(result, c, OkResult(finish[c]))
    /\ pc' = Upd(pc, c, "ret_finish")
    /\ UNCHANGED << config, parser, toolagent, messages, lock, input_variables, steps, pending,
                    finish, planCalls, toolCalls, plans, entry_messages >>

\* memory.lock().await on the Finish branch
LockFinish(c) ==
    /\ pc[c] = "finish"
    /\ memory
    /\ lock = 0
    /\ lock' = c
    /\ pc' = Upd(pc, c, "add_user")
    /\ UNCHANGED << config, parser, toolagent, messages, input_variables, steps, pending,
                    finish, result, planCalls, toolCalls, plans,
                    entry_messages >>

\* a faulty variant of UserEntry: the input is recorded as an assistant message
UserEntryAsAi(inputs) == AIMessage(inputs["input"])

\* the message add_user_message(&input_variables["input"]) appends
UserEntry(inputs) == HumanMessage(inputs["input"])

\* a faulty variant of AddUserMessage: the guard is dropped after the user
\* message
AddUserMessageUnlocks(c) ==
    /\ pc[c] = "add_user"
    /\ lock = c
    /\ IF "input" \in DOMAIN input_variables[c]
       THEN /\ messages' =
                   Append(messages, UserEntry(input_variables[c]))
            /\ pc' = Upd(pc, c, "add_ai")
            /\ lock' = 0
            /\ UNCHANGED result
       ELSE /\ result' = Upd(result, c, Panicked)
            /\ pc' = Upd(pc, c, "panic")
            /\ lock' = 0
            /\ UNCHANGED messages
    /\ UNCHANGED << config, parser, toolagent, input_variables, steps, pending, finish,
                    planCalls, toolCalls, plans, entry_messages >>

\* memory.add_user_message(&input_variables["input"]); indexing a HashMap
\* by a missing key panics, and unwinding drops the guard
AddUserMessage(c) ==
    /\ pc[c] = "add_user"
    /\ lock = c
    /\ IF "input" \in DOMAIN input_variables[c]
       THEN /\ messages' =
                   Append(messages, UserEntry(input_variables[c]))
            /\ pc' = Upd(pc, c, "add_ai")
            /\ UNCHANGED << lock, result >>
       ELSE /\ result' = Upd(result, c, Panicked)
            /\ pc' = Upd(pc, c, "panic")
            /\ lock' = 0
            /\ UNCHANGED messages
    /\ UNCHANGED << config, parser, toolagent, input_variables, steps, pending, finish,
                    planCalls, toolCalls, plans, entry_messages >>

\* memory.add_ai_message(&finish.output); the guard is dropped; return Ok
AddAiMessage(c) ==
    /\ pc[c] = "add_ai"
    /\ lock = c
    /\ messages' = Append(messages, AIMessage(finish[c]))
    /\ lock' = 0
    /\ result' = Upd(result, c, OkResult(finish[c]))
    /\ pc' = Upd(pc, c, "ret_finish")
    /\ UNCHANGED << config, parser, toolagent, input_variables, steps, pending, finish,
                    planCalls, toolCalls, plans, entry_messages >>

Next ==
    \/ \E c \in active : Call(c)
    \/ \E c \in active : LockEntry(c)
    \/ \E c \in active : ReadHistory(c)
    \/ \E c \in active : DefaultHistory(c)
    \/ \E c \in active : Plan(c)
    \/ \E c \in active : Dispatch(c)
    \/ \E c \in active : IterationCheck(c)
    \/ \E c \in active : FinishNoMemory(c)
    \/ \E c \in active : LockFinish(c)
    \/ \E c \in active : AddUserMessage(c)
    \/ \E c \in active : AddAiMessage(c)

Spec == Init /\ [][Next]_vars

(***************************************************************************)
(* Two concurrent calls of one executor, on the same Memory when there is  *)
(* one.                                                                    *)
(***************************************************************************)
InitConc ==
    /\ agent \in {[kind |-> "scripted", n |-> n] : n \in 0..MaxConcScript}
    /\ max_iterations = Some(DefaultMaxIterations)
    /\ break_if_error = FALSE
    /\ memory \in BOOLEAN
    /\ messages \in (IF memory THEN MemoryChoices ELSE {<<>>})
    /\ lock = 0
    /\ active = Callers
    /\ InitCalls
    /\ ParserIdle
    /\ ToolAgentIdle

SpecConc == InitConc /\ [][Next]_vars

(***************************************************************************)
(* Calls that run on: one call with any agent, or two concurrent calls     *)
(* with a scripted agent, and every step of a call that can be taken is    *)
(* eventually taken: the agent and the tools return, and a task waiting    *)
(* for the Mutex gets it once it is free.                                  *)
(***************************************************************************)
InitLive ==
    /\ active \in {{1}, Callers}
    /\ agent \in (IF active = Callers
                  THEN {[kind |-> "scripted", n |-> n] : n \in 0..MaxConcScript}
                  ELSE {[kind |-> "scripted", n |-> n] : n \in 0..MaxConcScript}
                           \cup {[kind |-> "free", n |-> 0]})
    /\ max_iterations \in {Some(1), Some(DefaultMaxIterations)}
    /\ break_if_error \in BOOLEAN
    /\ memory \in BOOLEAN
    /\ messages = <<>>
    /\ lock = 0
    /\ InitCalls
    /\ ParserIdle
    /\ ToolAgentIdle

\* the steps of the call c once it is made
CallStep(c) ==
    \/ LockEntry(c)
    \/ ReadHistory(c)
    \/ DefaultHistory(c)
    \/ Plan(c)
    \/ Dispatch(c)
    \/ IterationCheck(c)
    \/ FinishNoMemory(c)
    \/ LockFinish(c)
    \/ AddUserMessage(c)
    \/ AddAiMessage(c)

SpecLive ==
    InitLive /\ [][Next]_vars /\ \A c \in Callers : WF_vars(c \in active /\ CallStep(c))

(***************************************************************************)
(* The texts given to the parser: documents, whole or cut short, inside a  *)
(* fenced block (with or without prose around it), bare, or after a fence  *)
(* that is never closed.                                                   *)
(***************************************************************************)
\* nesting depth of the generated documents
MaxDepth == 2

Str(w) == <<Quote, w, Quote>>
Member(k, v) == Str(k) \o <<":">> \o v
Output(a, i) ==
    <<"{">> \o Member("action", a) \o <<",">> \o Member("action_input", i)
        \o <<"}">>

RECURSIVE Nested(_)
Nested(d) ==
    IF d = 0 THEN <<"1">>
    ELSE <<"[", "{">> \o Member("k", Nested(d - 1)) \o <<"}", "]">>

ActionValues == { Str("Foo"), Str("Final Answer"), Str("final answer"), <<"1">> }

\* a word, a string with an escaped quote and a brace, a string that ends
\* with an escaped backslash after a bracket, a number, an array
InputValues ==
    { Str("x"),
      <<Quote, "x", Backslash, Quote, "}", Quote>>,
      <<Quote, "[", Backslash, Backslash, Quote>>,
      <<"1">>,
      <<"[", "1", "]">> }

WellFormedDocs ==
    {Output(a, i) : a \in ActionValues, i \in InputValues}
      \cup {<<"{">> \o Member("action", Str("Foo")) \o <<",">>
               \o Member("action_input", Str("x")) \o <<",">>
               \o Member("m", Nested(d)) \o <<"}">> : d \in 0..MaxDepth}
      \cup {Nested(d) : d \in 0..MaxDepth}
      \cup { <<"{">> \o Member("action", Str("Foo")) \o <<"}">>,
             <<"[">> \o Str("Foo") \o <<",">> \o Str("x") \o <<"]">>,
             <<"[">> \o Str("Final Answer") \o <<",", " ">> \o Str("x")
                 \o <<" ", "]">>,
             <<"{", "}">>,
             <<"[", Quote, Backslash, Backslash, Backslash, Quote, "]", Quote, "]">>,
             Str("Foo") }

MalformedDocs ==
    { <<"{">> \o Member("a", <<"[", "1", ",", "1", "}">>),
      <<"[", "}", "]">>,
      <<"{", "]">>,
      <<"}">>,
      <<"[", "1", "]", "]">>,
      Output(Str("Foo"), Str("x")) \o <<"}">>,
      <<"[", Backslash, Quote, "}", Quote, "]">>,
      <<"prose">> }

Docs == WellFormedDocs \cup MalformedDocs

Wraps == {"fence", "prose", "bare", "open"}

\* the document without its last cut characters
Keep(doc, cut) == SubSeq(doc, 1, Len(doc) - cut)

Wrap(wrap, body) ==
    CASE wrap = "fence" -> <<FenceOpen>> \o body \o <<FenceClose>>
      [] wrap = "prose" -> <<"prose", FenceOpen>> \o body \o <<FenceClose, "prose">>
      [] wrap = "open" -> <<"prose", FenceOpen>> \o body
      [] OTHER -> body

InitParse ==
    /\ agent = [kind |-> "scripted", n |-> 0]
    /\ max_iterations = Some(DefaultMaxIterations)
    /\ break_if_error = FALSE
    /\ memory = FALSE
    /\ messages = <<>>
    /\ lock = 0
    /\ active = {}
    /\ InitCalls
    /\ origin \in {[doc |-> d, cut |-> k, wrap |-> w] :
                      d \in Docs, k \in 0..MaxCut, w \in Wraps}
    /\ origin.cut <= Len(origin.doc)
    /\ text = Wrap(origin.wrap, Keep(origin.doc, origin.cut))
    /\ p_pc = "parse"
    /\ chars = <<>>
    /\ scan = ScanInit
    /\ value = <<>>
    /\ parsed = NotParsed
    /\ ToolAgentIdle

executor ==
    << agent, max_iterations, break_if_error, memory, messages, lock, active,
       pc, input_variables, steps, pending, finish, result, planCalls,
       toolCalls, plans, entry_messages >>

\* parse up to the direct parse of the captured block
ParseBegin ==
    /\ p_pc = "parse"
    /\ IF Captures(text) = <<>>
       THEN /\ value' = <<>>
            /\ parsed' = ParseMatch(<<>>, text)
            /\ p_pc' = "done"
            /\ UNCHANGED << chars, scan >>
       ELSE IF FromStr(Captures(text)[1]) # <<>>
       THEN /\ value' = FromStr(Captures(text)[1])
            /\ parsed' = ParseMatch(FromStr(Captures(text)[1]), text)
            /\ p_pc' = "done"
            /\ UNCHANGED << chars, scan >>
       ELSE /\ chars' = Captures(text)[1]
            /\ scan' = ScanInit
            /\ p_pc' = "scan"
            /\ UNCHANGED << value, parsed >>
    /\ UNCHANGED << executor, toolagent, text, origin >>

\* one turn of the for loop over the characters
ScanStep ==
    /\ p_pc = "scan"
    /\ chars # <<>>
    /\ scan' = ScanChar(scan, Head(chars))
    /\ chars' = Tail(chars)
    /\ IF ScanChar(scan, Head(chars)).failed
       THEN /\ parsed' = ParseMatch(<<>>, text)
            /\ p_pc' = "done"
       ELSE UNCHANGED << parsed, p_pc >>
    /\ UNCHANGED << executor, toolagent, text, origin, value >>

\* the closers are appended, the result is parsed and parse matches on it
ScanEnd ==
    /\ p_pc = "scan"
    /\ chars = <<>>
    /\ scan' = [scan EXCEPT !.new_s = CloseOpen(scan), !.stack = <<>>]
    /\ value' = FromStr(CloseOpen(scan))
    /\ parsed' = ParseMatch(FromStr(CloseOpen(scan)), text)
    /\ p_pc' = "done"
    /\ UNCHANGED << executor, toolagent, text, origin, chars >>

NextParse ==
    \/ ParseBegin
    \/ ScanStep
    \/ ScanEnd

SpecParse == InitParse /\ [][NextParse]_vars

(***************************************************************************)
(* The OpenAiToolAgent (src/agent/open_ai_tools/agent.rs) in the loop of   *)
(* the executor: plan decodes the generation into a batch of calls and     *)
(* writes the call identifier and the whole generation into the log of     *)
(* each action; construct_scratchpad reads them back from the steps.       *)
(***************************************************************************)
\* number of planning rounds that may return a batch
MaxToolRounds == 2

\* a FunctionCallResponse as the backend writes it
CallDoc(id, name, arguments) ==
    <<"{">> \o Member("id", Str(id)) \o <<",">>
        \o Member("type", Str("function")) \o <<",">>
        \o Member("function",
               <<"{">> \o Member("name", Str(name)) \o <<",">>
                   \o Member("arguments", arguments) \o <<"}">>)
        \o <<"}">>

\* arguments are a document inside a string: {"x":1} with its quotes escaped
EscapedArguments ==
    <<Quote, "{", Backslash, Quote, "x", Backslash, Quote, ":", "1", "}", Quote>>

BatchDoc(calls) ==
    IF Len(calls) = 0 THEN <<"[", "]">>
    ELSE IF Len(calls) = 1 THEN <<"[">> \o calls[1] \o <<"]">>
    ELSE <<"[">> \o calls[1] \o <<",">> \o calls[2] \o <<"]">>

\* what chain.call may generate: batches of calls, and prose
Generations ==
    { BatchDoc(<<CallDoc("a", "c", Str("in"))>>),
      BatchDoc(<<CallDoc("b", "w_s", EscapedArguments)>>),
      BatchDoc(<<CallDoc("d", "c", EscapedArguments), CallDoc("e", "w_s", Str("bad"))>>),
      BatchDoc(<<>>),
      <<"prose">> }

\* what a tool may answer
Observations == { <<"25">>, <<"boom">> }

IsStrField(v, k) == <<k>> \in DOMAIN v.v /\ v.v[<<k>>].t = "str"

\* serde_json::from_value::<FunctionCallResponse>
IsCall(v) ==
    /\ v.t = "obj"
    /\ IsStrField(v, "id")
    /\ IsStrField(v, "type")
    /\ <<"function">> \in DOMAIN v.v
    /\ v.v[<<"function">>].t = "obj"
    /\ IsStrField(v.v[<<"function">>], "name")
    /\ IsStrField(v.v[<<"function">>], "arguments")

CallOf(v) ==
    [id |-> v.v[<<"id">>].v,
     name |-> v.v[<<"function">>].v[<<"name">>].v,
     arguments |-> v.v[<<"function">>].v[<<"arguments">>].v]

\* Deserialize for Vec<FunctionCallResponse>, of a parsed document
CallsOf(parsed_s) ==
    IF parsed_s = <<>> THEN <<>>
    ELSE IF parsed_s[1].t # "arr" THEN <<>>
    ELSE IF \E i \in 1..Len(parsed_s[1].v) : ~IsCall(parsed_s[1].v[i])
    THEN <<>>
    ELSE << [i \in 1..Len(parsed_s[1].v) |-> CallOf(parsed_s[1].v[i])] >>

\* serde_json::from_str::<Vec<FunctionCallResponse>>: <<calls>>, or <<>>
DecodeCalls(s) == CallsOf(FromStr(s))

\* the characters of s from lo to hi with a backslash before every quote
\* and backslash
RECURSIVE Escaped(_, _, _)
Escaped(s, lo, hi) ==
    IF lo > hi THEN <<>>
    ELSE IF lo = hi
         THEN (IF s[lo] \in {Quote, Backslash} THEN <<Backslash, s[lo]>>
               ELSE <<s[lo]>>)
    ELSE Escaped(s, lo, (lo + hi) \div 2) \o Escaped(s, (lo + hi) \div 2 + 1, hi)

Escape(s) == Escaped(s, 1, Len(s))

\* a faulty variant of ToJsonString: the characters are not escaped
ToJsonStringRaw(s) == <<Quote>> \o s \o <<Quote>>

\* serde_json::to_string of a String
ToJsonString(s) == <<Quote>> \o Escape(s) \o <<Quote>>

\* serde_json::to_string(&LogTools {tool_id, tools})
LogToString(tool_id, tools) ==
    <<"{">> \o <<Quote, "tool_id", Quote, ":">> \o ToJsonString(tool_id)
        \o <<",">> \o <<Quote, "tools", Quote, ":">> \o ToJsonString(tools)
        \o <<"}">>

\* Deserialize for LogTools, of a parsed document
LogOf(parsed_log) ==
    IF parsed_log = <<>> THEN <<>>
    ELSE IF parsed_log[1].t # "obj" THEN <<>>
    ELSE IF ~(IsStrField(parsed_log[1], "tool_id")
                /\ IsStrField(parsed_log[1], "tools"))
    THEN <<>>
    ELSE << [tool_id |-> parsed_log[1].v[<<"tool_id">>].v,
             tools |-> parsed_log[1].v[<<"tools">>].v] >>

\* serde_json::from_str::<LogTools>: <<[tool_id, tools]>>, or <<>>
DecodeLog(log) == LogOf(FromStr(log))

\* Message::new_ai_message("").with_tool_calls(json!(tools))
AiToolCalls(tools) == [role |-> "ai", content |-> <<>>, id |-> <<>>, tool_calls |-> tools]

\* Message::new_tool_message(observation, tool_id)
ToolMessage(observation, tool_id) ==
    [role |-> "tool", content |-> observation, id |-> tool_id, tool_calls |-> <<>>]

Scratchpad(ok, msgs) == [ok |-> ok, thoughts |-> msgs]

\* the messages of one step: the assistant message with the batch if
\* thoughts is empty, then the tool message of the observation
Thoughts(msgs, tools, observation, tool_id) ==
    (IF msgs = <<>> THEN <<AiToolCalls(tools)>> ELSE msgs)
        \o <<ToolMessage(observation, tool_id)>>

\* construct_scratchpad, from the step at position i on: the log is
\* decoded, then the batch in it, and the messages are pushed
RECURSIVE ConstructFrom(_, _, _), ConstructLog(_, _, _, _),
          ConstructTools(_, _, _, _, _)
ConstructFrom(intermediate_steps, i, msgs) ==
    IF i > Len(intermediate_steps) THEN Scratchpad(TRUE, msgs)
    ELSE ConstructLog(intermediate_steps, i, msgs,
                      DecodeLog(intermediate_steps[i][1].log))

ConstructLog(intermediate_steps, i, msgs, log) ==
    IF log = <<>> THEN Scratchpad(FALSE, <<>>)
    ELSE ConstructTools(intermediate_steps, i, msgs, log[1].tool_id,
                        DecodeCalls(log[1].tools))

ConstructTools(intermediate_steps, i, msgs, tool_id, tools) ==
    IF tools = <<>> THEN Scratchpad(FALSE, <<>>)
    ELSE ConstructFrom(intermediate_steps, i + 1,
             Thoughts(msgs, tools[1], intermediate_steps[i][2], tool_id))

ConstructScratchpad(intermediate_steps) ==
    ConstructFrom(intermediate_steps, 1, <<>>)

\* the actions plan makes of the decoded batch
ActionsOf(tools, output) ==
    [i \in 1..Len(tools) |->
        [tool |-> tools[i].name,
         tool_input |-> tools[i].arguments,
         log |-> LogToString(tools[i].id, output)]]

\* the constant executor around the agent
ExecutorIdle ==
    /\ agent = [kind |-> "scripted", n |-> 0]
    /\ max_iterations = Some(DefaultMaxIterations)
    /\ break_if_error = FALSE
    /\ memory = FALSE
    /\ messages = <<>>
    /\ lock = 0
    /\ active = {}
    /\ InitCalls

InitTools ==
    /\ ExecutorIdle
    /\ ParserIdle
    /\ t_pc = "plan"
    /\ t_steps = <<>>
    /\ t_pending = <<>>
    /\ t_outputs = <<>>
    /\ thoughts = <<>>

\* the match on the decoding of the output: a batch is returned as
\* actions, anything else as the final answer
PlanMatch(tools, output) ==
    /\ t_outputs' = Append(t_outputs, output)
    /\ IF tools = <<>>
       THEN /\ t_pc' = "done"
            /\ UNCHANGED t_pending
       ELSE /\ t_pending' = ActionsOf(tools[1], output)
            /\ t_pc' = IF tools[1] = <<>> THEN "plan" ELSE "dispatch"

\* plan once the scratchpad is constructed: its error is returned, or the
\* chain is called and its output decoded
PlanWith(scratchpad) ==
    IF ~scratchpad.ok
    THEN /\ t_pc' = "err"
         /\ UNCHANGED << t_pending, t_outputs, thoughts >>
    ELSE /\ thoughts' = scratchpad.thoughts
         /\ \E output \in (IF Len(t_outputs) < MaxToolRounds
                           THEN Generations ELSE {<<"prose">>}) :
                PlanMatch(DecodeCalls(output), output)

\* OpenAiToolAgent::plan, called by the executor with the steps so far
ToolsPlan ==
    /\ t_pc = "plan"
    /\ PlanWith(ConstructScratchpad(t_steps))
    /\ UNCHANGED << executor, parser, t_steps >>

\* the executor dispatches the next action of the batch and records the
\* observation
ToolsObserve ==
    /\ t_pc = "dispatch"
    /\ t_pending # <<>>
    /\ \E observation \in Observations :
           t_steps' = Append(t_steps, << Head(t_pending), observation >>)
    /\ t_pending' = Tail(t_pending)
    /\ t_pc' = IF Tail(t_pending) = <<>> THEN "plan" ELSE "dispatch"
    /\ UNCHANGED << executor, parser, t_outputs, thoughts >>

NextTools ==
    \/ ToolsPlan
    \/ ToolsObserve

SpecTools == InitTools /\ [][NextTools]_vars


(***************************************************************************)
(* Vocabulary of the properties.                                           *)
(***************************************************************************)
\* max_iterations is configured to m
MaxIs(m) == max_iterations = Some(m)

\* every plan call of c so far returned a batch of exactly one action
OneActionRounds(c) ==
    \A i \in 1..Len(plans[c]) :
        /\ plans[c][i].event.type = "Action"
        /\ Len(plans[c][i].event.actions) = 1

\* the observation of a step is the synthesized failure observation
IsErrorStep(st) == st[2][1] = "The tool return the following error: "

\* no tool invocation of c failed and every action of c resolved
ToolsSucceeded(c) ==
    /\ result[c].category \notin {"tool", "tool_not_found"}
    /\ \A i \in 1..Len(steps[c]) : ~IsErrorStep(steps[c][i])

(***************************************************************************)
(* C1: with max_iterations = m >= 1, a call makes at most m planning calls *)
(* whatever events the agent returns, empty batches included.              *)
(***************************************************************************)
C1_AtMostMPlanCalls ==
    \A c \in active :
        \A m \in 1..DefaultMaxIterations :
            MaxIs(m) => planCalls[c] <= m

(***************************************************************************)
(* C2: with max_iterations = m >= 1, succeeding tools and an agent that    *)
(* returns a one-action batch at every planning call, the call ends with   *)
(* exactly m planning calls, m tool invocations and m steps, returning the *)
(* sentinel as a successful result.                                        *)
(***************************************************************************)
C2_ExactlyMRounds ==
    \A c \in active :
        \A m \in 1..DefaultMaxIterations :
            (MaxIs(m) /\ OneActionRounds(c) /\ ToolsSucceeded(c))
                => /\ planCalls[c] <= m
                   /\ pc[c] \in Terminal =>
                        /\ pc[c] = "ret_bound"
                        /\ result[c] = OkResult(Sentinel)
                        /\ planCalls[c] = m
                        /\ toolCalls[c] = m
                        /\ Len(steps[c]) = m

C2_Witness ==
    \E c \in active :
        /\ MaxIs(DefaultMaxIterations)
        /\ OneActionRounds(c)
        /\ ToolsSucceeded(c)
        /\ pc[c] = "ret_bound"
        /\ planCalls[c] = DefaultMaxIterations

(***************************************************************************)
(* C3: at every planning call the number of accumulated steps is strictly  *)
(* below the configured max_iterations, for any configured value, 0        *)
(* included.                                                               *)
(***************************************************************************)
C3_StepsBelowMaxAtPlan ==
    \A c \in active :
        \A m \in 0..DefaultMaxIterations :
            MaxIs(m) =>
                \A i \in 1..Len(plans[c]) : Len(plans[c][i].steps) < m


(***************************************************************************)
(* C4 as stated: with Memory, under the default configuration, a scripted  *)
(* agent of N one-action rounds then Finish ends, for every N >= 0, with   *)
(* exactly N tool invocations, then one Memory write pair (user, then      *)
(* assistant), and the Finish output returned.                             *)
(***************************************************************************)
\* the Memory holds the entry history followed by the pair of this call
WrotePair(c) ==
    messages = entry_messages[c]
                  \o << HumanMessage(input_variables[c]["input"]),
                        AIMessage("answer") >>

\* the call of a scripted agent, with Memory and an `input` entry
ScriptedCall(c) ==
    /\ agent.kind = "scripted"
    /\ memory
    /\ pc[c] # "idle"
    /\ "input" \in DOMAIN input_variables[c]

C5_MemoryOnlyAtFinish ==
    \A c \in active :
        pc[c] \notin {"idle", "add_ai", "ret_finish"}
            => messages = entry_messages[c]

C5_Witness ==
    \E c \in active :
        /\ memory
        /\ pc[c] = "ret_bound"
        /\ steps[c] # <<>>
        /\ messages # <<>>


(***************************************************************************)
(* Vocabulary of the dispatch properties.                                  *)
(***************************************************************************)
\* the action the call dispatches next
HeadAction(c) == Head(pending[c])

\* the call is about to dispatch an action whose name is a registry key
HeadRegistered(c) ==
    /\ pc[c] = "dispatch"
    /\ HeadAction(c).tool \in RegistryKeys

\* ... and the tool it names fails on the action's input
HeadFails(c) ==
    /\ HeadRegistered(c)
    /\ ~ToolCall(NameToTools[HeadAction(c).tool], HeadAction(c).tool_input).ok

\* the failure description of that invocation
HeadError(c) ==
    ToolCall(NameToTools[HeadAction(c).tool], HeadAction(c).tool_input).val

\* the call takes a step
Stepped(c) == pc'[c] # pc[c] \/ pending'[c] # pending[c]

\* a call that has returned does nothing more
ReturnedIsFinal(c) ==
    pc[c] \in Terminal =>
        /\ ~Stepped(c)
        /\ UNCHANGED << steps, planCalls, toolCalls, plans, result, messages >>

(***************************************************************************)
(* C6: with break_if_error = true a failing tool invocation makes the call *)
(* return a fatal error at once: no step is appended for the action, no    *)
(* later action of the batch is dispatched, no further planning call is    *)
(* made and Memory is not written.                                         *)
(***************************************************************************)
C6_BreakIsFatal ==
    [][\A c \in active :
          /\ (break_if_error /\ HeadFails(c) /\ Stepped(c))
                => /\ pc'[c] = "ret_err"
                   /\ result'[c] = ErrResult("tool", <<"Tool error: ", HeadError(c)>>)
                   /\ toolCalls'[c] = toolCalls[c] + 1
                   /\ steps'[c] = steps[c]
                   /\ pending'[c] = pending[c]
                   /\ planCalls'[c] = planCalls[c]
                   /\ messages' = messages
          /\ ReturnedIsFinal(c)]_vars

C6_Witness ==
    \E c \in active :
        /\ break_if_error
        /\ memory
        /\ pc[c] = "ret_err"
        /\ result[c].category = "tool"
        /\ steps[c] # <<>>
        /\ Len(pending[c]) >= 2

(***************************************************************************)
(* C7: with break_if_error = false a failing tool invocation does not end  *)
(* the call: a step (action, observation) is appended whose observation    *)
(* embeds the failure description, the remaining actions of the batch      *)
(* follow, and every later planning call receives the steps so far, that   *)
(* step included.                                                          *)
(***************************************************************************)
C7_FailureBecomesObservation ==
    [][\A c \in active :
          /\ (~break_if_error /\ HeadFails(c) /\ Stepped(c))
                => /\ Len(steps'[c]) = Len(steps[c]) + 1
                   /\ SubSeq(steps'[c], 1, Len(steps[c])) = steps[c]
                   /\ steps'[c][Len(steps'[c])][1] = HeadAction(c)
                   /\ \E i \in 1..Len(steps'[c][Len(steps'[c])][2]) :
                          steps'[c][Len(steps'[c])][2][i] = HeadError(c)
                   /\ result'[c] = NoResult
                   /\ pending'[c] = Tail(pending[c])
                   /\ pc'[c] = IF pending'[c] = <<>> THEN "check" ELSE "dispatch"
          /\ Len(plans'[c]) > Len(plans[c])
                => plans'[c][Len(plans'[c])].steps = steps[c]
          /\ Len(steps'[c]) >= Len(steps[c])
          /\ SubSeq(steps'[c], 1, Len(steps[c])) = steps[c]]_vars

C7_Witness ==
    \E c \in active :
        /\ ~break_if_error
        /\ Len(plans[c]) = 2
        /\ Len(plans[c][1].event.actions) = 2
        /\ Len(plans[c][2].steps) = 2
        /\ IsErrorStep(plans[c][2].steps[1])

(***************************************************************************)
(* C8: an action naming a tool that is not in the registry ends the call   *)
(* with a fatal error whatever break_if_error is: no tool is invoked for   *)
(* it, no step is appended, the agent does not plan again and Memory is    *)
(* not written.                                                            *)
(***************************************************************************)
C8_UnknownToolIsFatal ==
    [][\A c \in active :
          /\ (/\ pc[c] = "dispatch"
              /\ HeadAction(c).tool \notin RegistryKeys
              /\ Stepped(c))
                => /\ pc'[c] = "ret_err"
                   /\ result'[c].kind = "err"
                   /\ result'[c].category = "tool_not_found"
                   /\ toolCalls'[c] = toolCalls[c]
                   /\ steps'[c] = steps[c]
                   /\ planCalls'[c] = planCalls[c]
                   /\ messages' = messages
          /\ ReturnedIsFinal(c)]_vars

C8_Witness ==
    \E c \in active :
        /\ ~break_if_error
        /\ memory
        /\ pc[c] = "ret_err"
        /\ result[c].category = "tool_not_found"
        /\ HeadAction(c).tool = <<"z">>
        /\ steps[c] # <<>>

(***************************************************************************)
(* C9: tool resolution is a normalized lookup: an action whose tool name,  *)
(* trimmed and with spaces replaced by underscores, equals the normalized  *)
(* name of a registered tool resolves to that tool and is dispatched.      *)
(***************************************************************************)
C9_NormalizedLookup ==
    \A c \in active :
        result[c].category = "tool_not_found"
            => NormalizeName(HeadAction(c).tool) \notin RegistryKeys

(***************************************************************************)
(* C10: every call ends by returning a textual result or an error value,   *)
(* for every input mapping and configuration; it never panics.             *)
(***************************************************************************)
C10_NeverPanics ==
    \A c \in active :
        /\ pc[c] # "panic"
        /\ pc[c] \in Terminal => result[c].kind \in {"ok", "err"}


(***************************************************************************)
(* C11: a failing planning call (generation failure, scratchpad decode     *)
(* failure or schema-decode failure) is fatal for the call: the call       *)
(* returns the planning error at once, the plan is not invoked again, no   *)
(* tool is invoked afterwards and Memory is not written.                   *)
(***************************************************************************)
C11_PlanFailureIsFatal ==
    [][\A c \in active :
          /\ (/\ pc[c] = "plan"
              /\ planCalls'[c] # planCalls[c]
              /\ plans'[c][Len(plans'[c])].event.type = "Err")
                => /\ pc'[c] = "ret_err"
                   /\ result'[c] =
                        ErrResult("planning",
                            <<"Error in agent planning: ",
                              plans'[c][Len(plans'[c])].event.output>>)
                   /\ planCalls'[c] = planCalls[c] + 1
                   /\ toolCalls'[c] = toolCalls[c]
                   /\ steps'[c] = steps[c]
                   /\ messages' = messages
          /\ ReturnedIsFinal(c)]_vars

C11_Witness ==
    \E c \in active :
        /\ memory
        /\ pc[c] = "ret_err"
        /\ result[c] =
             ErrResult("planning", <<"Error in agent planning: ", "serde_json">>)
        /\ planCalls[c] = 2
        /\ toolCalls[c] >= 1
        /\ messages = entry_messages[c]

(***************************************************************************)
(* Vocabulary of the parser properties.                                    *)
(***************************************************************************)
\* parse has returned
Done == p_pc = "done"

\* the text holds a fenced block
Fenced == origin.wrap \in {"fence", "prose"}

\* the value is an object with string fields action and action_input
IsOutputObject(v) ==
    /\ v.t = "obj"
    /\ {<<"action">>, <<"action_input">>} \subseteq DOMAIN v.v
    /\ v.v[<<"action">>].t = "str"
    /\ v.v[<<"action_input">>].t = "str"

ActionOf(v) == v.v[<<"action">>].v
ActionInputOf(v) == v.v[<<"action_input">>].v

IsEvent(r) == r.ok /\ r.event.type \in {"Action", "Finish"}

(***************************************************************************)
(* C12 as stated: parse is total: for every input text it returns an       *)
(* AgentEvent and never an error.                                          *)
(***************************************************************************)
C12_ParseTotal == Done => IsEvent(parsed)

(***************************************************************************)
(* C12 amended: parse returns an AgentEvent for every text except those    *)
(* from whose fenced block a value was extracted that does not decode      *)
(* into an AgentOutput, for which it returns an error; a text that yields  *)
(* no value degrades to Finish with the text.                              *)
(***************************************************************************)
C12_TotalButDecode ==
    Done =>
        /\ IsEvent(parsed) <=> (value = <<>> \/ FromValue(value[1]) # <<>>)
        /\ ~IsEvent(parsed) => parsed = PlanErr("serde_json")
        /\ value = <<>> => parsed = PlanOk(EventFinish(text))

C12_Witness ==
    /\ Done
    /\ Fenced
    /\ value # <<>>
    /\ value[1].t = "obj"
    /\ parsed = PlanErr("serde_json")

(***************************************************************************)
(* C13: when a value is extracted from the fenced block that is not an     *)
(* object with the string fields action and action_input (a field is       *)
(* missing or of another type, or the value is not an object), parse       *)
(* returns a hard error, never an event.                                   *)
(***************************************************************************)
C13_NonDecodingIsError ==
    (Done /\ value # <<>> /\ ~IsOutputObject(value[1])) => ~parsed.ok

(***************************************************************************)
(* C14: for a text whose fenced block decodes to {action, action_input},   *)
(* parse returns Finish with output = action_input exactly when action is  *)
(* the literal Final Answer, and otherwise an Action batch of exactly one  *)
(* AgentAction with tool = action, tool_input = action_input and log = the *)
(* whole text.                                                             *)
(***************************************************************************)
C14_FinishOrOneAction ==
    (Done /\ value # <<>> /\ IsOutputObject(value[1])) =>
        /\ parsed.ok
        /\ parsed.event.type = "Finish" <=> ActionOf(value[1]) = <<"Final Answer">>
        /\ parsed.event.type = "Finish" =>
               parsed.event = EventFinish(ActionInputOf(value[1]))
        /\ parsed.event.type # "Finish" =>
               parsed.event =
                   EventAction(<< [tool |-> ActionOf(value[1]),
                                   tool_input |-> ActionInputOf(value[1]),
                                   log |-> text] >>)

C14_Witness ==
    /\ Done
    /\ origin.wrap = "prose"
    /\ origin.cut > 0
    /\ value # <<>>
    /\ IsOutputObject(value[1])
    /\ ActionOf(value[1]) = <<"final answer">>
    /\ parsed.event.type = "Action"

(***************************************************************************)
(* C15: for a text in which no fenced block is found, or whose block       *)
(* yields no value after the direct parse and the repair, parse returns    *)
(* Finish with the text unchanged, and parsing that output again returns   *)
(* the same Finish.                                                        *)
(***************************************************************************)
C15_Passthrough ==
    (Done /\ (~Fenced \/ value = <<>>)) =>
        /\ parsed = PlanOk(EventFinish(text))
        /\ Parse(parsed.event.output) = parsed

C15_Witness ==
    /\ Done
    /\ origin.wrap = "prose"
    /\ value = <<>>
    /\ ~scan.failed
    /\ scan.new_s # <<>>
    /\ parsed = PlanOk(EventFinish(text))

(***************************************************************************)
(* Vocabulary of the repair properties.                                    *)
(***************************************************************************)
\* the text is a fenced well-formed document of objects and arrays without
\* its last origin.cut characters, all of them closing brackets
TrailingClosersCut ==
    /\ Fenced
    /\ FromStr(origin.doc) # <<>>
    /\ FromStr(origin.doc)[1].t \in {"obj", "arr"}
    /\ \A i \in (Len(origin.doc) - origin.cut + 1)..Len(origin.doc) :
           origin.doc[i] \in {"}", "]"}

\* the text with the fully closed document
FullText == Wrap(origin.wrap, origin.doc)

(***************************************************************************)
(* C16 as stated: for a well-formed document of nested objects and arrays  *)
(* without some of its trailing closing brackets, the repair appends the   *)
(* missing closers innermost first and the re-parse yields the same value, *)
(* hence the same AgentEvent, as the fully closed document.                *)
(***************************************************************************)
C16_SameEvent ==
    (Done /\ TrailingClosersCut) =>
        /\ value = FromStr(origin.doc)
        /\ parsed = Parse(FullText)

(***************************************************************************)
(* C16 amended: the repair appends the missing closers innermost first,    *)
(* which restores the document, and the re-parse yields the same value;    *)
(* parse returns the same outcome as for the fully closed document, except *)
(* that the log of the action is the text as it was given, cut short.      *)
(***************************************************************************)
C16_SameValue ==
    (Done /\ TrailingClosersCut) =>
        /\ value = FromStr(origin.doc)
        /\ origin.cut > 0 => (~scan.failed /\ scan.new_s = origin.doc)
        /\ parsed.ok = Parse(FullText).ok
        /\ parsed.event.type = Parse(FullText).event.type
        /\ parsed.event.output = Parse(FullText).event.output
        /\ Len(parsed.event.actions) = Len(Parse(FullText).event.actions)
        /\ \A j \in 1..Len(parsed.event.actions) :
               /\ parsed.event.actions[j].tool =
                      Parse(FullText).event.actions[j].tool
               /\ parsed.event.actions[j].tool_input =
                      Parse(FullText).event.actions[j].tool_input
               /\ parsed.event.actions[j].log = text

C16_Witness ==
    /\ Done
    /\ TrailingClosersCut
    /\ origin.cut >= 4
    /\ parsed.ok
    /\ parsed.event.type = "Action"

(***************************************************************************)
(* C17: during the repair a closing bracket outside a string that differs  *)
(* from the closer on top of the stack, or that arrives when the stack is  *)
(* empty, aborts the repair with no value; parse then returns Finish with  *)
(* the raw text, not an error.                                             *)
(***************************************************************************)
C17_MismatchAborts ==
    [][(/\ p_pc = "scan"
        /\ chars # <<>>
        /\ Head(chars) \in {"}", "]"}
        /\ ~scan.is_inside_string
        /\ \/ scan.stack = <<>>
           \/ scan.stack[Len(scan.stack)] # Head(chars))
          => /\ p_pc' = "done"
             /\ value' = <<>>
             /\ parsed' = PlanOk(EventFinish(text))]_vars

C17_Witness ==
    /\ Done
    /\ scan.failed
    /\ scan.stack # <<>>
    /\ value = <<>>
    /\ parsed = PlanOk(EventFinish(text))


(***************************************************************************)
(* C18: the read-then-mutate sequence of a call on the shared Memory (the  *)
(* history read at entry, the two appends at finish) is mutually exclusive *)
(* with other calls: between a call's history read and its own append no   *)
(* other call holds the Memory to read or to write it.                     *)
(***************************************************************************)
C18_ReadToAppendExclusive ==
    \A c \in active : \A d \in active \ {c} :
        (memory /\ pc[c] \in {"plan", "dispatch", "check", "finish",
                              "add_user", "add_ai"})
            => lock # d

(***************************************************************************)
(* Vocabulary of the step properties.                                      *)
(***************************************************************************)
\* the observation the executor records for a dispatched action
ObservationOf(a) ==
    IF ToolCall(NameToTools[a.tool], a.tool_input).ok
    THEN <<ToolCall(NameToTools[a.tool], a.tool_input).val>>
    ELSE <<"The tool return the following error: ",
           ToolCall(NameToTools[a.tool], a.tool_input).val>>

\* later extends earlier by one (action, observation) pair per action of
\* the first n actions of batch, in their order
ExtendsBy(later, earlier, batch, n) ==
    /\ Len(later) = Len(earlier) + n
    /\ n <= Len(batch)
    /\ SubSeq(later, 1, Len(earlier)) = earlier
    /\ \A j \in 1..n :
           later[Len(earlier) + j] = << batch[j], ObservationOf(batch[j]) >>

LastPlan(c) == plans[c][Len(plans[c])]

(***************************************************************************)
(* C19: within one call tools are invoked one at a time in the order of    *)
(* the actions of each batch, and every action of a batch is dispatched    *)
(* before the next planning call; the steps are append-only and scoped to  *)
(* the call: empty at the first planning call, and at each later planning  *)
(* call the previous ones extended, in dispatch order, by one (action,     *)
(* observation) pair per dispatched action.                                *)
(***************************************************************************)
C19_OrderedAppendOnly ==
    \A c \in active :
        /\ pc[c] = "plan" => pending[c] = <<>>
        /\ plans[c] = <<>> => (steps[c] = <<>> /\ toolCalls[c] = 0)
        /\ plans[c] # <<>> =>
               /\ plans[c][1].steps = <<>>
               /\ \A i \in 2..Len(plans[c]) :
                      ExtendsBy(plans[c][i].steps, plans[c][i - 1].steps,
                                plans[c][i - 1].event.actions,
                                Len(plans[c][i - 1].event.actions))
               /\ Len(steps[c]) >= Len(LastPlan(c).steps)
               /\ ExtendsBy(steps[c], LastPlan(c).steps,
                            LastPlan(c).event.actions,
                            Len(steps[c]) - Len(LastPlan(c).steps))
               /\ pending[c] =
                      SubSeq(LastPlan(c).event.actions,
                             Len(steps[c]) - Len(LastPlan(c).steps) + 1,
                             Len(LastPlan(c).event.actions))
               /\ toolCalls[c] \in {Len(steps[c]), Len(steps[c]) + 1}
               /\ toolCalls[c] = Len(steps[c]) + 1 =>
                      (pc[c] = "ret_err" /\ result[c].category = "tool")

C19_Witness ==
    \E c \in active :
        /\ Len(plans[c]) = 2
        /\ Len(plans[c][1].event.actions) = 2
        /\ plans[c][1].event.actions[1] # plans[c][1].event.actions[2]
        /\ Len(plans[c][2].steps) = 2
        /\ IsErrorStep(plans[c][2].steps[1])

(***************************************************************************)
(* C20 as stated: with max_iterations = m >= 1 the number of accumulated   *)
(* steps, and so the number of tool invocations, never exceeds m, also     *)
(* when a planning round returns a batch of several actions.               *)
(***************************************************************************)
C20_AtMostMSteps ==
    \A c \in active : \A m \in 1..DefaultMaxIterations :
        MaxIs(m) => (Len(steps[c]) <= m /\ toolCalls[c] <= m)

(***************************************************************************)
(* C20 amended: with max_iterations = m >= 1 fewer than m steps are        *)
(* accumulated at every planning call, and the whole batch that call       *)
(* returns is dispatched: steps and tool invocations never exceed m - 1    *)
(* plus the length of the last batch, and never exceed m when no batch has *)
(* more than one action.                                                   *)
(***************************************************************************)
C20_BoundPlusBatch ==
    \A c \in active : \A m \in 1..DefaultMaxIterations :
        (MaxIs(m) /\ plans[c] # <<>>) =>
            /\ \A i \in 1..Len(plans[c]) : Len(plans[c][i].steps) < m
            /\ Len(steps[c]) <= m - 1 + Len(LastPlan(c).event.actions)
            /\ toolCalls[c] <= m - 1 + Len(LastPlan(c).event.actions)
            /\ (\A i \in 1..Len(plans[c]) : Len(plans[c][i].event.actions) <= 1)
                   => (Len(steps[c]) <= m /\ toolCalls[c] <= m)

C20_Witness ==
    \E c \in active :
        /\ MaxIs(1)
        /\ Len(steps[c]) = 2
        /\ toolCalls[c] = 2
        /\ pc[c] = "ret_bound"


(***************************************************************************)
(* Vocabulary of the scan properties: what a prefix of the text says,      *)
(* read off the text itself.                                               *)
(***************************************************************************)
\* whether position i is inside a quoted string: a quote opens a string,
\* and ends it when an even number of backslashes precedes it
RECURSIVE InsideAfter(_, _)
InsideAfter(s, i) ==
    IF i = 0 THEN FALSE
    ELSE LET before == InsideAfter(s, i - 1)
         IN  IF s[i] = Quote /\ (~before \/ BackslashRun(s, i - 1) % 2 = 0)
             THEN ~before
             ELSE before

\* the closers of the openers unclosed outside strings after position i
RECURSIVE OpenClosers(_, _)
OpenClosers(s, i) ==
    IF i = 0 THEN <<>>
    ELSE LET open == OpenClosers(s, i - 1)
         IN  IF InsideAfter(s, i - 1) THEN open
             ELSE IF s[i] = "{" THEN Append(open, "}")
             ELSE IF s[i] = "[" THEN Append(open, "]")
             ELSE IF s[i] \in {"}", "]"}
                  THEN SubSeq(open, 1, Len(open) - 1)
             ELSE open

(***************************************************************************)
(* C23: at every point of the repair scan the stack holds exactly the      *)
(* closers of the openers still unclosed outside quoted strings, innermost *)
(* last: brackets inside a string are neither pushed nor popped, the       *)
(* in-string flag toggles only on a quote that is not escaped, and inside  *)
(* a string a quote after an odd number of backslashes does not end the    *)
(* string while one after an even number does.                             *)
(***************************************************************************)
C23_StackIsOpenClosers ==
    p_pc = "scan" =>
        /\ ~scan.failed
        /\ scan.is_inside_string = InsideAfter(scan.new_s, Len(scan.new_s))
        /\ scan.stack = OpenClosers(scan.new_s, Len(scan.new_s))
        /\ scan.escaped =
               (/\ InsideAfter(scan.new_s, Len(scan.new_s))
                /\ BackslashRun(scan.new_s, Len(scan.new_s)) % 2 = 1)

C23_Witness ==
    /\ p_pc = "scan"
    /\ Len(scan.new_s) >= 5
    /\ scan.new_s[Len(scan.new_s)] = "]"
    /\ scan.new_s[Len(scan.new_s) - 1] = Quote
    /\ BackslashRun(scan.new_s, Len(scan.new_s) - 2) = 3
    /\ scan.is_inside_string
    /\ scan.stack = <<"]">>

(***************************************************************************)
(* Vocabulary of C24.                                                      *)
(***************************************************************************)
\* the text is a fenced well-formed document cut off inside its last
\* string value: after the cut come the rest of that string, its closing
\* quote, and closing brackets only
CutInsideLastString ==
    /\ Fenced
    /\ FromStr(origin.doc) # <<>>
    /\ FromStr(origin.doc)[1].t \in {"obj", "arr"}
    /\ origin.cut > 0
    /\ InsideAfter(origin.doc, Len(origin.doc) - origin.cut)
    /\ \E j \in (Len(origin.doc) - origin.cut + 1)..Len(origin.doc) :
           /\ \A k \in (Len(origin.doc) - origin.cut)..(j - 1) :
                  InsideAfter(origin.doc, k)
           /\ ~InsideAfter(origin.doc, j)
           /\ \A k \in (j + 1)..Len(origin.doc) :
                  origin.doc[k] \in {"}", "]", " "}

(***************************************************************************)
(* C24: for a well-formed document cut off inside its last string value    *)
(* the repair closes the open string and the open brackets, and the        *)
(* re-parse yields a value instead of the fallback to Finish with the raw  *)
(* text.                                                                   *)
(***************************************************************************)
C24_CutInStringRecovered ==
    (Done /\ CutInsideLastString) =>
        /\ value # <<>>
        /\ parsed # PlanOk(EventFinish(text))


(***************************************************************************)
(* C21: in the structured call-batch variant, for steps accumulated over   *)
(* any number of planning rounds, the scratchpad holds for each round's    *)
(* batch one assistant message carrying that batch, followed by one        *)
(* tool-result message per observation tagged with its call identifier: so *)
(* every tool-result message is preceded by an assistant message whose     *)
(* batch contains its call identifier.                                     *)
(***************************************************************************)
C21_ResultFollowsItsBatch ==
    \A i \in 1..Len(thoughts) :
        thoughts[i].role = "tool" =>
            \E j \in 1..(i - 1) :
                /\ thoughts[j].role = "ai"
                /\ \E k \in 1..Len(thoughts[j].tool_calls) :
                       thoughts[j].tool_calls[k].id = thoughts[i].id

(***************************************************************************)
(* C22: every log that OpenAiToolAgent.plan writes into an AgentAction     *)
(* decodes without error in the scratchpad construction of a later round   *)
(* and gives back the call identifier and the whole call batch that plan   *)
(* received; a loop driven by this agent never fails with a log decode     *)
(* error on the steps the agent produced.                                  *)
(***************************************************************************)
C22_LogRoundTrip ==
    /\ t_pc # "err"
    /\ \A i \in 1..Len(t_steps) :
           LET log == DecodeLog(t_steps[i][1].log)
           IN  /\ log # <<>>
               /\ \E r \in 1..Len(t_outputs) :
                      /\ log[1].tools = t_outputs[r]
                      /\ LET tools == DecodeCalls(t_outputs[r])
                         IN  /\ tools # <<>>
                             /\ \E k \in 1..Len(tools[1]) :
                                    tools[1][k] =
                                        [id |-> log[1].tool_id,
                                         name |-> t_steps[i][1].tool,
                                         arguments |-> t_steps[i][1].tool_input]
               /\ \A j \in 1..Len(thoughts) :
                      (thoughts[j].role = "tool" /\ i = j - 1) =>
                          thoughts[j] = ToolMessage(t_steps[i][2], log[1].tool_id)

C22_Witness ==
    /\ t_pc = "done"
    /\ Len(t_outputs) = 3
    /\ Len(t_steps) >= 2
    /\ Len(thoughts) = Len(t_steps) + 1
    /\ \E i \in 1..Len(t_steps) :
           /\ t_steps[i][1].tool_input = <<"{", Quote, "x", Quote, ":", "1", "}">>
           /\ DecodeLog(t_steps[i][1].log)[1].tool_id = <<"b">>

(***************************************************************************)
(* C28: a configured negative max_iterations never triggers the            *)
(* iteration-bound branch: converted to an unsigned size it is a bound no  *)
(* steps sequence reaches, so no call returns the sentinel and a call that *)
(* has ended has ended by a Finish event or by a fatal error.              *)
(***************************************************************************)
C28_NegativeBoundNeverReached ==
    (max_iterations # None /\ max_iterations[1] < 0) =>
        \A c \in active :
            /\ pc[c] # "ret_bound"
            /\ result[c] # OkResult(Sentinel)
            /\ ~BoundReached(Len(steps[c]), max_iterations)
            /\ pc[c] \in Terminal =>
                   \/ pc[c] = "ret_err"
                   \/ LastPlan(c).event.type = "Finish"

C28_Witness ==
    /\ MaxIs(-1)
    /\ \E c \in active :
           /\ pc[c] = "ret_finish"
           /\ Len(steps[c]) > DefaultMaxIterations

\* the mapping m with chat_history replaced by history
WithHistory(m, history) ==
    [k \in DOMAIN m \cup {"chat_history"} |->
        IF k = "chat_history" THEN history ELSE m[k]]

\* c is past the entry of its call
Entered(c) == pc[c] \notin {"idle", "entry", "read_history"}

(***************************************************************************)
(* C27: within one call every planning call receives the same input        *)
(* mapping, the caller's inputs with chat_history replaced by the history  *)
(* read from Memory once at entry (empty without a Memory); between rounds *)
(* only the steps change, and what other calls write to Memory after the   *)
(* entry is not seen by the later rounds of this call.                     *)
(***************************************************************************)
C27_SameInputsEveryRound ==
    [][\A c \in active :
          /\ (pc[c] = "read_history" /\ pc'[c] # pc[c]) =>
                 input_variables'[c] = WithHistory(input_variables[c], messages)
          /\ (pc[c] = "entry" /\ ~memory /\ pc'[c] # pc[c]) =>
                 input_variables'[c] = WithHistory(input_variables[c], <<>>)
          /\ Entered(c) => input_variables'[c] = input_variables[c]
          /\ \A i \in 1..Len(plans'[c]) :
                 plans'[c][i].inputs = input_variables'[c]
          /\ Len(plans'[c]) > Len(plans[c]) =>
                 /\ Entered(c)
                 /\ plans'[c] = Append(plans[c], LastPlan(c)')
                 /\ LastPlan(c)'.steps = steps[c]
      ]_vars

C27_Witness ==
    /\ memory
    /\ \E c \in active :
           /\ Len(plans[c]) = 2
           /\ plans[c][1].steps # plans[c][2].steps
           /\ "input" \in DOMAIN plans[c][2].inputs
           /\ plans[c][2].inputs["chat_history"] # messages

\* the messages of Memory are pairs: a user message at every odd position,
\* an assistant message at every even position
Paired(msgs) ==
    \A i \in 1..Len(msgs) :
        msgs[i].role = (IF i % 2 = 1 THEN "human" ELSE "ai")

(***************************************************************************)
(* C26: under any interleaving of concurrent calls that share one Memory   *)
(* the two messages a finishing call writes are adjacent: from the moment  *)
(* a call has appended its user message that message is the last one of    *)
(* Memory until the same call appends its assistant message right after    *)
(* it, and no message of another call comes between them; Memory is a      *)
(* sequence of user and assistant pairs.                                   *)
(***************************************************************************)
C26_PairAdjacent ==
    /\ [](memory =>
            /\ Paired(messages)
            /\ \A c \in active :
                   pc[c] = "add_ai" =>
                       /\ messages # <<>>
                       /\ messages[Len(messages)] = UserEntry(input_variables[c])
            /\ (Len(messages) % 2 = 1) <=> (\E c \in active : pc[c] = "add_ai"))
    /\ [][\A c \in active :
            (memory /\ pc[c] = "add_ai") =>
                \/ messages' = messages /\ pc'[c] = "add_ai"
                \/ /\ messages' = Append(messages, AIMessage(finish[c]))
                   /\ pc'[c] = "ret_finish"
        ]_vars

C26_Witness ==
    /\ memory
    /\ \E c \in active : \E d \in active \ {c} :
           /\ pc[c] = "ret_finish"
           /\ pc[d] = "ret_finish"
           /\ steps[c] # <<>>
           /\ Len(messages) >= 4
           /\ messages[Len(messages) - 3] = UserEntry(input_variables[d])
           /\ messages[Len(messages) - 2] = AIMessage(finish[d])
           /\ messages[Len(messages) - 1] = UserEntry(input_variables[c])
           /\ messages[Len(messages)] = AIMessage(finish[c])

\* the agent of c has not returned, and does not: the planning calls of a
\* free agent are bounded
AgentSilent(c) ==
    pc[c] = "plan" /\ agent.kind = "free" /\ planCalls[c] >= MaxFreePlans

====
